---- MODULE Spec2Model ----
(***************************************************************************)
(* A model of the todo application's persisted state.                      *)
(*                                                                         *)
(*   useLocalStorage  (src/src/hooks/useLocalStorage.test.ts, 65-100)      *)
(*       a React hook holding `value` and `isHydrated` as component state, *)
(*       with one passive effect that reads localStorage once on mount and *)
(*       one that writes `value` back whenever it changed after hydration. *)
(*   TodoList         (src/src/components/client/TodoList.tsx)             *)
(*       the component that keeps the list of todos in that hook and       *)
(*       changes it from its event handlers.                               *)
(*                                                                         *)
(* React's scheduling is modelled as React defines it: a state setter      *)
(* appends an update to the hook's queue; a render applies the queued      *)
(* updates in order and commits the result; the passive effects a commit   *)
(* scheduled are flushed, all together, before the next render starts.     *)
(* An event handler closes over the values of the last render, and React   *)
(* does not promise a render between two handlers: the updates of handlers *)
(* that run before the next render are batched.                            *)
(***************************************************************************)
EXTENDS Integers, Sequences, FiniteSets, TLC

VARIABLES
    value,          \* useState<T>(initialValue): the committed `value` (`todos`)
    isHydrated,     \* useState(false): the committed `isHydrated`
    inputValue,     \* useState(''): the committed text of the input field
    valueQueue,     \* updates queued by setValue / setTodos, oldest first
    hydratedQueue,  \* updates queued by setIsHydrated
    inputQueue,     \* updates queued by setInputValue
    pendingEffects, \* passive effects scheduled by the last commit, not yet run
    storage,        \* localStorage's item under the key 'todos'
    warnings,       \* what console.warn was called with since the page loaded
    getItemCalls,   \* calls of localStorage.getItem by this hook instance
    setItemCalls,   \* calls of localStorage.setItem by this hook instance
    lastRead,       \* outcome of the getItem call: "none", "ok", "threw"
    lastWrite,      \* outcome of the last setItem call: "none", "ok", "threw"
    uncaught,       \* an exception has escaped an effect
    nextId,         \* the next value crypto.randomUUID() returns
    now,            \* the clock new Date() reads
    nOps,           \* events so far: handlers run and pages loaded again
    lastOp,         \* the last event handler run, with its arguments
    sequential,     \* every set so far applied one after another, in issue order
    deletedIds,     \* the ids deleteTodo was called with since the page loaded
    current,        \* the list a list operation is applied to
    previous        \* the list before the last list operation

vars == <<value, isHydrated, inputValue, valueQueue, hydratedQueue, inputQueue,
          pendingEffects, storage, warnings, getItemCalls, setItemCalls,
          lastRead, lastWrite, uncaught, nextId, now, nOps, lastOp, sequential,
          deletedIds, current, previous>>

(* The variables of the hook and the component, but the id and the clock. *)
hookVars == <<value, isHydrated, inputValue, valueQueue, hydratedQueue, inputQueue,
              pendingEffects, storage, warnings, getItemCalls, setItemCalls,
              lastRead, lastWrite, uncaught, sequential, deletedIds>>

(* The variables of the list operations taken on their own. *)
opsVars == <<current, previous>>

----------------------------------------------------------------------------
(* Bounds of the model. *)

MaxOps == 3

----------------------------------------------------------------------------
(* Strings typed into the input field: sequences of characters. *)

Inputs ==
    { <<>>, <<" ", " ">>, <<"a">>, <<" ", "a", " ">>, <<"a", " ", "b">> }

IsWhiteSpace(c) == c = " "

RECURSIVE trimStart(_)
trimStart(s) ==
    IF s # <<>> /\ IsWhiteSpace(Head(s)) THEN trimStart(Tail(s)) ELSE s

RECURSIVE trimEnd(_)
trimEnd(s) ==
    IF s # <<>> /\ IsWhiteSpace(s[Len(s)])
    THEN trimEnd(SubSeq(s, 1, Len(s) - 1))
    ELSE s

(* String.prototype.trim: white space removed from both ends. *)
trim(s) == trimEnd(trimStart(s))

----------------------------------------------------------------------------
(* Todo records and their JSON text. *)

DateOf(ms) == [type |-> "Date", ms |-> ms]
IsoStringOf(ms) == [type |-> "string", ms |-> ms]

(* Date.prototype.toJSON: a Date is written as its ISO string, which keeps *)
(* the millisecond; a string stays the string it is.                       *)
toJSON(createdAt) == IsoStringOf(createdAt.ms)

(* What localStorage.getItem returns: null, or the string stored. *)
Null == [tag |-> "null", doc |-> <<>>]
EmptyString == [tag |-> "empty", doc |-> <<>>]
Garbage == [tag |-> "garbage", doc |-> <<>>]

(* JSON.stringify of a list of todos: the text of the array in which each  *)
(* createdAt is replaced by its toJSON().                                  *)
JSONstringify(list) ==
    [tag |-> "json",
     doc |-> [i \in 1..Len(list) |->
                 [list[i] EXCEPT !.createdAt = toJSON(@)]]]

(* JSON.parse throws a SyntaxError on anything that is no JSON text. *)
JSONparseThrows(s) == s.tag # "json"

(* JSON.parse of a JSON text: strings stay strings, nothing is revived. *)
JSONparse(s) == s.doc

(* `saved ? ... : ...`: null and the empty string are falsy. *)
Truthy(saved) == saved.tag \notin {"null", "empty"}

initialValue == <<>>

----------------------------------------------------------------------------
(* The list operations of TodoList.tsx, as the functions of the list they  *)
(* compute.  Array indices are JavaScript's: the first element has index 0. *)

NoId == 0

(* A variant that gives every new record the same id. *)
TodoWithFixedId(id, text, ms) ==
    [id |-> 1, text |-> text, completed |-> FALSE, createdAt |-> DateOf(ms)]

Todo(id, text, ms) ==
    [id |-> id, text |-> text, completed |-> FALSE, createdAt |-> DateOf(ms)]

(* What reading a missing array element gives. *)
Undefined ==
    [id |-> NoId, text |-> <<>>, completed |-> FALSE,
     createdAt |-> [type |-> "undefined", ms |-> 0]]

Min(a, b) == IF a < b THEN a ELSE b
Max(a, b) == IF a > b THEN a ELSE b

(* A variant that counts positions from 1. *)
findIndexFromOne(items, id) ==
    IF \E i \in 1..Len(items) : items[i].id = id
    THEN CHOOSE i \in 1..Len(items) :
             /\ items[i].id = id
             /\ \A j \in 1..(i - 1) : items[j].id # id
    ELSE -1

(* items.findIndex((item) => item.id === id): -1 when there is none. *)
findIndex(items, id) ==
    IF \E i \in 1..Len(items) : items[i].id = id
    THEN (CHOOSE i \in 1..Len(items) :
              /\ items[i].id = id
              /\ \A j \in 1..(i - 1) : items[j].id # id) - 1
    ELSE -1

(* Array.prototype.splice's start: a negative start counts from the end,   *)
(* and the result is clamped to 0..length.                                 *)
SpliceStart(len, start) ==
    IF start < 0 THEN Max(len + start, 0) ELSE Min(start, len)

(* A variant that exchanges the two elements. *)
arraySwap(array, from, to) ==
    IF from < 0 \/ to < 0
    THEN array
    ELSE [array EXCEPT ![from + 1] = array[to + 1], ![to + 1] = array[from + 1]]

(* arrayMove of @dnd-kit/sortable:                                         *)
(*   const newArray = array.slice();                                       *)
(*   newArray.splice(to < 0 ? newArray.length + to : to, 0,                *)
(*                   newArray.splice(from, 1)[0]);                         *)
(* The insertion index is computed before the element is taken out.        *)
arrayMove(array, from, to) ==
    LET len      == Len(array)
        target   == IF to < 0 THEN len + to ELSE to
        start    == SpliceStart(len, from)
        removed  == IF start < len THEN array[start + 1] ELSE Undefined
        rest     == IF start < len
                    THEN SubSeq(array, 1, start) \o SubSeq(array, start + 2, len)
                    ELSE array
        at       == SpliceStart(Len(rest), target)
    IN  SubSeq(rest, 1, at) \o <<removed>> \o SubSeq(rest, at + 1, Len(rest))

(* A variant that leaves the source where it is and adds a copy of it. *)
copyItems(items, active, over) ==
    IF findIndex(items, active) >= 0
    THEN Append(items, items[findIndex(items, active) + 1])
    ELSE items

(* The updater handleDragEnd gives to setTodos. *)
moveItems(items, active, over) ==
    arrayMove(items, findIndex(items, active), findIndex(items, over))

(* A variant that puts the new record first: [newTodo, ...todos]. *)
prependTodo(todos, newTodo) == <<newTodo>> \o todos

(* [...todos, newTodo] *)
appendTodo(todos, newTodo) == Append(todos, newTodo)

(* A variant that flips every record: todos.map((todo) => ({...todo,       *)
(* completed: !todo.completed}))                                           *)
toggleEvery(todos, id) ==
    [i \in 1..Len(todos) |-> [todos[i] EXCEPT !.completed = ~@]]

(* todos.map((todo) => todo.id === id ? {...todo, completed: !todo.completed} : todo) *)
toggleTodos(todos, id) ==
    [i \in 1..Len(todos) |->
        IF todos[i].id = id
        THEN [todos[i] EXCEPT !.completed = ~@]
        ELSE todos[i]]

(* A variant that drops the first record whatever the id: todos.slice(1) *)
deleteFirst(todos, id) ==
    IF todos = <<>> THEN todos ELSE Tail(todos)

(* todos.filter((todo) => todo.id !== id) *)
deleteTodos(todos, id) ==
    LET keep(t) == t.id # id IN SelectSeq(todos, keep)

(* todos.filter((t) => !t.completed).length, the count the footer shows *)
remaining(todos) == Cardinality({i \in 1..Len(todos) : ~todos[i].completed})

(* The ids of the items on screen, in order. *)
RenderedIds == {value[i].id : i \in 1..Len(value)}

----------------------------------------------------------------------------
(* React state updates. *)

Literal(v) == [kind |-> "literal", val |-> v, active |-> NoId, over |-> NoId]
MoveUpdater(active, over) ==
    [kind |-> "updater", val |-> <<>>, active |-> active, over |-> over]

(* An update applied to the state it finds: a literal replaces it, an      *)
(* updater function is called with it.                                     *)
ApplyUpdate(state, update) ==
    IF update.kind = "literal"
    THEN update.val
    ELSE moveItems(state, update.active, update.over)

(* The queued updates applied in the order they were queued. *)
RECURSIVE ProcessQueue(_, _)
ProcessQueue(state, queue) ==
    IF queue = <<>> THEN state
    ELSE ProcessQueue(ApplyUpdate(state, Head(queue)), Tail(queue))

(* A queue of literal updates leaves the last one. *)
LastOr(state, queue) ==
    IF queue = <<>> THEN state ELSE queue[Len(queue)]

Op(name, text, a, b) == [op |-> name, text |-> text, a |-> a, b |-> b]

----------------------------------------------------------------------------
(* The initial states: a page load over whatever localStorage holds.       *)

(* A list an earlier session stored. *)
SeedList ==
    << [id |-> 1, text |-> <<"a">>, completed |-> FALSE, createdAt |-> DateOf(1)],
       [id |-> 2, text |-> <<"a">>, completed |-> TRUE, createdAt |-> DateOf(2)] >>

Seeds ==
    {Null, EmptyString, Garbage}
        \cup {JSONstringify(SubSeq(SeedList, 1, n)) : n \in 0..Len(SeedList)}

(* The component's first render: every useState holds its initial value,   *)
(* and both effects of useLocalStorage are scheduled.                      *)
Mount ==
    /\ value = initialValue
    /\ isHydrated = FALSE
    /\ inputValue = <<>>
    /\ valueQueue = <<>>
    /\ hydratedQueue = <<>>
    /\ inputQueue = <<>>
    /\ pendingEffects = {"hydration", "write"}
    /\ getItemCalls = 0
    /\ setItemCalls = 0
    /\ lastRead = "none"
    /\ lastWrite = "none"
    /\ warnings = <<>>
    /\ uncaught = FALSE
    /\ sequential = initialValue
    /\ deletedIds = {}

Init ==
    /\ Mount
    /\ storage \in Seeds
    /\ nextId = Len(SeedList) + 1
    /\ now = Len(SeedList) + 1
    /\ nOps = 0
    /\ lastOp = Op("load", <<>>, NoId, NoId)
    /\ current = initialValue
    /\ previous = initialValue

----------------------------------------------------------------------------
(* The effects of useLocalStorage. *)

ReadWarning == "localStorage error"
WriteWarning == "Failed to save to localStorage"

(* A variant of the hydration effect without its try statement. *)
ReadErrorEscapes == FALSE

(* try { ... } catch (error) { console.warn(...) } around the read. *)
CatchesReadError == TRUE

(* A variant of the write effect without its try statement. *)
WriteErrorEscapes == FALSE

(* try { ... } catch (error) { console.warn(...) } around the write. *)
CatchesWriteError == TRUE

(* Whether the try block of the hydration effect throws: getItem throws    *)
(* (readThrows), or JSON.parse is called and throws.                       *)
HydrationThrows(readThrows) ==
    readThrows \/ (Truthy(storage) /\ JSONparseThrows(storage))

(* A variant that falls back to a sample list instead of initialValue. *)
LoadedDefaultsToSample(saved) ==
    IF Truthy(saved) THEN JSONparse(saved) ELSE SeedList

(* A variant that never uses what was stored. *)
LoadedIgnoresSaved(saved) == initialValue

(* saved ? JSON.parse(saved) : initialValue *)
Loaded(saved) == IF Truthy(saved) THEN JSONparse(saved) ELSE initialValue

(* The hydration effect, run with getItem throwing or not: the updates it  *)
(* queues and the warnings it logs.  setIsHydrated(true) follows the try   *)
(* statement, so it is reached unless an exception escapes.                *)
HydrationEffect(readThrows) ==
    LET threw == HydrationThrows(readThrows)
    IN  [setValue      |-> IF threw THEN <<>> ELSE <<Literal(Loaded(storage))>>,
         warn          |-> IF threw /\ CatchesReadError THEN <<ReadWarning>> ELSE <<>>,
         escapes       |-> threw /\ ~CatchesReadError,
         setIsHydrated |-> IF threw /\ ~CatchesReadError THEN <<>> ELSE <<TRUE>>,
         outcome       |-> IF readThrows THEN "threw" ELSE "ok"]

(* A variant of the write effect that does not wait for hydration. *)
WriteGateOpen == TRUE

(* if (isHydrated && typeof window !== 'undefined'): effects run in the    *)
(* browser only, where window is defined.                                  *)
WriteGate == isHydrated

(* The write effect, run with setItem throwing or not. *)
WriteEffect(writeThrows) ==
    [called  |-> WriteGate,
     stored  |-> IF WriteGate /\ ~writeThrows THEN JSONstringify(value) ELSE storage,
     warn    |-> IF WriteGate /\ writeThrows /\ CatchesWriteError
                 THEN <<WriteWarning>> ELSE <<>>,
     escapes |-> WriteGate /\ writeThrows /\ ~CatchesWriteError,
     outcome |-> IF ~WriteGate THEN lastWrite
                 ELSE IF writeThrows THEN "threw" ELSE "ok"]

(* An effect the last commit did not schedule does nothing. *)
NoHydration ==
    [setValue |-> <<>>, warn |-> <<>>, escapes |-> FALSE, setIsHydrated |-> <<>>,
     outcome |-> lastRead]
NoWrite ==
    [called |-> FALSE, stored |-> storage, warn |-> <<>>, escapes |-> FALSE,
     outcome |-> lastWrite]

(* The passive effects of the last commit run, in the order the hook       *)
(* declares them, in one uninterrupted step.                               *)
FlushPassiveEffects ==
    /\ ~uncaught
    /\ pendingEffects # {}
    /\ \E readThrows \in BOOLEAN, writeThrows \in BOOLEAN :
        LET h == IF "hydration" \in pendingEffects
                 THEN HydrationEffect(readThrows) ELSE NoHydration
            w == IF "write" \in pendingEffects
                 THEN WriteEffect(writeThrows) ELSE NoWrite
        IN  /\ getItemCalls' = getItemCalls
                                + (IF "hydration" \in pendingEffects THEN 1 ELSE 0)
            /\ valueQueue' = valueQueue \o h.setValue
            /\ hydratedQueue' = hydratedQueue \o h.setIsHydrated
            /\ sequential' = IF h.setValue = <<>> THEN sequential
                             ELSE h.setValue[1].val
            /\ setItemCalls' = setItemCalls + (IF w.called THEN 1 ELSE 0)
            /\ storage' = w.stored
            /\ lastRead' = h.outcome
            /\ lastWrite' = w.outcome
            /\ warnings' = warnings \o h.warn \o w.warn
            /\ uncaught' = (h.escapes \/ w.escapes)
    /\ pendingEffects' = {}
    /\ UNCHANGED <<value, isHydrated, inputValue, inputQueue, nextId, now, nOps, lastOp,
                   deletedIds>>

(* A variant of the write effect with the dependencies [key, value]. *)
WriteDepsWithoutIsHydrated == valueQueue # <<>>

(* The dependencies of the write effect are [key, value, isHydrated],      *)
(* compared with Object.is.  Every value update but the hydration effect's *)
(* setValue(initialValue) holds a new array, and that one is queued        *)
(* together with the setIsHydrated(true) that changes isHydrated.          *)
WriteDepsChanged ==
    valueQueue # <<>> \/ LastOr(isHydrated, hydratedQueue) # isHydrated

(* A variant with initialValue among the dependencies of the hydration    *)
(* effect: TodoList passes a new [] at every render, so every commit would *)
(* schedule the effect again.                                              *)
EffectsAfterRenderWithInitialValueDep ==
    {"hydration"} \cup (IF WriteDepsChanged THEN {"write"} ELSE {})

(* The passive effects a commit schedules: those with a dependency that   *)
(* changed.  The hydration effect depends on [key] alone, and the key      *)
(* never changes.                                                          *)
EffectsAfterRender == IF WriteDepsChanged THEN {"write"} ELSE {}

(* A render: the queued updates of each hook are applied in order and the  *)
(* result is committed.  The effects of the commit before have run.        *)
Render ==
    /\ ~uncaught
    /\ pendingEffects = {}
    /\ valueQueue # <<>> \/ hydratedQueue # <<>> \/ inputQueue # <<>>
    /\ value' = ProcessQueue(value, valueQueue)
    /\ isHydrated' = LastOr(isHydrated, hydratedQueue)
    /\ inputValue' = LastOr(inputValue, inputQueue)
    /\ valueQueue' = <<>>
    /\ hydratedQueue' = <<>>
    /\ inputQueue' = <<>>
    /\ pendingEffects' = EffectsAfterRender
    /\ UNCHANGED <<storage, warnings, getItemCalls, setItemCalls, lastRead, lastWrite,
                   uncaught, nextId, now, nOps, lastOp, sequential, deletedIds>>

----------------------------------------------------------------------------
(* The event handlers of TodoList. *)

CanHandle == ~uncaught /\ nOps < MaxOps

(* onChange of the input field: setInputValue(e.target.value) *)
ChangeInput(text) ==
    /\ CanHandle
    /\ text # inputValue
    /\ inputQueue' = Append(inputQueue, text)
    /\ nOps' = nOps + 1
    /\ lastOp' = Op("changeInput", text, NoId, NoId)
    /\ UNCHANGED <<value, isHydrated, inputValue, valueQueue, hydratedQueue,
                   pendingEffects, storage, warnings, getItemCalls, setItemCalls,
                   lastRead, lastWrite, uncaught, nextId, now, sequential,
                   deletedIds>>

(* A variant that tests the text as typed: if (text === '') return; *)
RejectsOnlyEmpty(text) == text = <<>>

(* if (text.trim() === '') return; *)
Rejected(text) == trim(text) = <<>>

(* addTodo(text) *)
addTodo(text) ==
    IF Rejected(text)
    THEN UNCHANGED <<valueQueue, inputQueue, nextId, now, sequential>>
    ELSE LET newTodo == Todo(nextId, trim(text), now)
         IN  /\ valueQueue' = Append(valueQueue, Literal(appendTodo(value, newTodo)))
             /\ inputQueue' = Append(inputQueue, <<>>)
             /\ nextId' = nextId + 1
             /\ now' = now + 1
             /\ sequential' = appendTodo(sequential, newTodo)

(* handleSubmit: addTodo(inputValue) *)
HandleSubmit ==
    /\ CanHandle
    /\ addTodo(inputValue)
    /\ nOps' = nOps + 1
    /\ lastOp' = Op("addTodo", inputValue, NoId, NoId)
    /\ UNCHANGED <<value, isHydrated, inputValue, hydratedQueue, pendingEffects,
                   storage, warnings, getItemCalls, setItemCalls, lastRead,
                   lastWrite, uncaught, deletedIds>>

(* toggleTodo(id), called by the checkbox of a rendered item *)
ToggleTodo(id) ==
    /\ CanHandle
    /\ id \in RenderedIds
    /\ valueQueue' = Append(valueQueue, Literal(toggleTodos(value, id)))
    /\ sequential' = toggleTodos(sequential, id)
    /\ nOps' = nOps + 1
    /\ lastOp' = Op("toggleTodo", <<>>, id, NoId)
    /\ UNCHANGED <<value, isHydrated, inputValue, hydratedQueue, inputQueue,
                   pendingEffects, storage, warnings, getItemCalls, setItemCalls,
                   lastRead, lastWrite, uncaught, nextId, now, deletedIds>>

(* deleteTodo(id), called by the Delete button of a rendered item *)
DeleteTodo(id) ==
    /\ CanHandle
    /\ id \in RenderedIds
    /\ valueQueue' = Append(valueQueue, Literal(deleteTodos(value, id)))
    /\ sequential' = deleteTodos(sequential, id)
    /\ deletedIds' = deletedIds \cup {id}
    /\ nOps' = nOps + 1
    /\ lastOp' = Op("deleteTodo", <<>>, id, NoId)
    /\ UNCHANGED <<value, isHydrated, inputValue, hydratedQueue, inputQueue,
                   pendingEffects, storage, warnings, getItemCalls, setItemCalls,
                   lastRead, lastWrite, uncaught, nextId, now>>

(* A variant that moves an item only over one made later. *)
DragMovesForward(active, over) == over # NoId /\ active < over

(* if (over && active.id !== over.id) *)
DragMoves(active, over) == over # NoId /\ active # over

(* handleDragEnd(event): a rendered item dropped over a rendered item, or  *)
(* over nothing (over is null).                                            *)
HandleDragEnd(active, over) ==
    /\ CanHandle
    /\ active \in RenderedIds
    /\ over \in RenderedIds \cup {NoId}
    /\ IF DragMoves(active, over)
       THEN /\ valueQueue' = Append(valueQueue, MoveUpdater(active, over))
            /\ sequential' = moveItems(sequential, active, over)
       ELSE UNCHANGED <<valueQueue, sequential>>
    /\ nOps' = nOps + 1
    /\ lastOp' = Op("handleDragEnd", <<>>, active, over)
    /\ UNCHANGED <<value, isHydrated, inputValue, hydratedQueue, inputQueue,
                   pendingEffects, storage, warnings, getItemCalls, setItemCalls,
                   lastRead, lastWrite, uncaught, nextId, now, deletedIds>>

(* The page is loaded again: a new component and hook instance over the    *)
(* same localStorage.                                                      *)
Reload ==
    /\ nOps < MaxOps
    /\ value' = initialValue
    /\ isHydrated' = FALSE
    /\ inputValue' = <<>>
    /\ valueQueue' = <<>>
    /\ hydratedQueue' = <<>>
    /\ inputQueue' = <<>>
    /\ pendingEffects' = {"hydration", "write"}
    /\ getItemCalls' = 0
    /\ setItemCalls' = 0
    /\ lastRead' = "none"
    /\ lastWrite' = "none"
    /\ warnings' = <<>>
    /\ sequential' = initialValue
    /\ deletedIds' = {}
    /\ nOps' = nOps + 1
    /\ lastOp' = Op("load", <<>>, NoId, NoId)
    /\ uncaught' = FALSE
    /\ UNCHANGED <<storage, nextId, now>>

IdUniverse == 1..(Len(SeedList) + MaxOps)

Next ==
    \/ FlushPassiveEffects /\ UNCHANGED opsVars
    \/ Render /\ UNCHANGED opsVars
    \/ \E text \in Inputs : ChangeInput(text) /\ UNCHANGED opsVars
    \/ HandleSubmit /\ UNCHANGED opsVars
    \/ \E id \in IdUniverse : ToggleTodo(id) /\ UNCHANGED opsVars
    \/ \E id \in IdUniverse : DeleteTodo(id) /\ UNCHANGED opsVars
    \/ \E active \in IdUniverse, over \in IdUniverse \cup {NoId} :
           HandleDragEnd(active, over) /\ UNCHANGED opsVars
    \/ Reload /\ UNCHANGED opsVars

Spec == Init /\ [][Next]_vars

----------------------------------------------------------------------------
(* The list operations on their own: each call of addTodo, toggleTodo,     *)
(* deleteTodo and of the updater of handleDragEnd as one step from the     *)
(* list it is given to the list it hands to setTodos.                      *)

MaxSteps == 4

BuyMilk == <<"B", "u", "y", " ", "m", "i", "l", "k">>
WalkDog == <<"W", "a", "l", "k", " ", "d", "o", "g">>

(* The texts submitted. *)
Texts == {BuyMilk, WalkDog, <<" ", " ">>}

(* The lists a session starts from: what hydration gives for a store that  *)
(* holds nothing or an earlier session's list.                             *)
StartLists ==
    {Loaded(Null)} \cup
        {Loaded(JSONstringify(SubSeq(SeedList, 1, n))) : n \in 0..Len(SeedList)}

OpsInit ==
    /\ Mount
    /\ storage = Null
    /\ nextId = Len(SeedList) + 1
    /\ now = Len(SeedList) + 1
    /\ nOps = 0
    /\ lastOp = Op("load", <<>>, NoId, NoId)
    /\ current \in StartLists
    /\ previous = current

(* The ids given out so far, by this session or an earlier one: those of  *)
(* the list and those no longer in it.                                     *)
IssuedIds == 1..(nextId - 1)

IdsOf(items) == {items[i].id : i \in 1..Len(items)}

(* addTodo(text) on the list *)
OpAppend(text) ==
    /\ nOps < MaxSteps
    /\ previous' = current
    /\ IF Rejected(text)
       THEN UNCHANGED <<current, nextId, now>>
       ELSE /\ current' = appendTodo(current, Todo(nextId, trim(text), now))
            /\ nextId' = nextId + 1
            /\ now' = now + 1
    /\ nOps' = nOps + 1
    /\ lastOp' = Op("append", text, NoId, NoId)
    /\ UNCHANGED hookVars

(* toggleTodo(id) on the list *)
OpToggle(id) ==
    /\ nOps < MaxSteps
    /\ previous' = current
    /\ current' = toggleTodos(current, id)
    /\ nOps' = nOps + 1
    /\ lastOp' = Op("toggle", <<>>, id, NoId)
    /\ UNCHANGED <<hookVars, nextId, now>>

(* deleteTodo(id) on the list *)
OpRemove(id) ==
    /\ nOps < MaxSteps
    /\ previous' = current
    /\ current' = deleteTodos(current, id)
    /\ nOps' = nOps + 1
    /\ lastOp' = Op("remove", <<>>, id, NoId)
    /\ UNCHANGED <<hookVars, nextId, now>>

(* handleDragEnd with active.id = sourceId and over.id = targetId.  The    *)
(* updater is called with the list current at the time, which other        *)
(* handlers of the same batch may have changed since the items were        *)
(* rendered: the ids are those of rendered items, in the list or not.  A   *)
(* drag takes two rendered items and a handler removes one at most, so the *)
(* list is not empty.                                                      *)
OpMove(sourceId, targetId) ==
    /\ nOps < MaxSteps
    /\ current # <<>>
    /\ previous' = current
    /\ current' = IF DragMoves(sourceId, targetId)
               THEN moveItems(current, sourceId, targetId)
               ELSE current
    /\ nOps' = nOps + 1
    /\ lastOp' = Op("move", <<>>, sourceId, targetId)
    /\ UNCHANGED <<hookVars, nextId, now>>

OpsNext ==
    \/ \E text \in Texts : OpAppend(text)
    \/ \E id \in IssuedIds : OpToggle(id)
    \/ \E id \in IssuedIds : OpRemove(id)
    \/ \E sourceId \in IssuedIds, targetId \in IssuedIds \cup {NoId} :
           OpMove(sourceId, targetId)

SpecOps == OpsInit /\ [][OpsNext]_vars

----------------------------------------------------------------------------
(* Properties. *)

Warned(w) == \E i \in 1..Len(warnings) : warnings[i] = w

(* The hydration read has happened and nothing has been written since, so  *)
(* localStorage still holds what the read found.                           *)
AfterRead == getItemCalls = 1 /\ setItemCalls = 0

(* Nothing is queued and no effect is pending. *)
Quiescent ==
    /\ valueQueue = <<>>
    /\ hydratedQueue = <<>>
    /\ pendingEffects = {}

(* A step that starts a new hook instance. *)
NewInstance == "hydration" \in pendingEffects'

(* A step in which the event handler `name` ran. *)
Handled(name) == nOps' = nOps + 1 /\ lastOp'.op = name

IsBlank(text) == \A i \in 1..Len(text) : text[i] = " "

(* t is s without the white space at its two ends. *)
IsTrimmedFormOf(t, s) ==
    \E i \in 0..Len(s), j \in 0..Len(s) :
        /\ i <= j
        /\ t = SubSeq(s, i + 1, j)
        /\ \A k \in 1..Len(s) : (k <= i \/ k > j) => s[k] = " "
        /\ t # <<>> => (t[1] # " " /\ t[Len(t)] # " ")

(* C1: while the store is not hydrated, localStorage.setItem has not been  *)
(* called: every write comes after the store was marked hydrated.          *)
C1_NoWriteBeforeHydrated ==
    ~isHydrated => (setItemCalls = 0 /\ lastWrite = "none")

(* The write effect has run on an unhydrated store. *)
C1_Witness ==
    /\ ~isHydrated
    /\ getItemCalls = 1
    /\ pendingEffects = {}
    /\ storage = JSONstringify(SeedList)

(* C2: over a stored, parseable value the new store's value is             *)
(* initialValue until hydration is committed and the parsed stored value   *)
(* at the moment it is committed, and nothing is written in between.       *)
C2_HydrationSequencing ==
    /\ [](~isHydrated => (value = initialValue /\ setItemCalls = 0))
    /\ [][(/\ ~isHydrated
           /\ isHydrated'
           /\ ~JSONparseThrows(storage)
           /\ lastRead = "ok")
          => (value' = JSONparse(storage) /\ storage' = storage)]_vars

(* Hydrated from a stored list of two, before the first write. *)
C2_Witness ==
    /\ isHydrated
    /\ setItemCalls = 0
    /\ lastRead = "ok"
    /\ storage = JSONstringify(SeedList)
    /\ value = JSONparse(storage)

(* C3: once the store is hydrated and the last write succeeded, and no     *)
(* update or write is pending, localStorage holds the serialization of the *)
(* value in memory, and a new store over it hydrates to that value.        *)
C3_PersistedIsCurrent ==
    (isHydrated /\ Quiescent /\ lastWrite = "ok")
        => (storage = JSONstringify(value) /\ Loaded(storage) = value)

(* The part of C3 that does hold: what is stored is the serialization. *)
C3_StoredIsSerialization ==
    (isHydrated /\ Quiescent /\ lastWrite = "ok")
        => storage = JSONstringify(value)

(* C4: when no update is pending, the list in memory is the result of      *)
(* applying every operation issued so far, one by one in issue order, each *)
(* to the result of the one before.                                        *)
C4_NoLostUpdates ==
    valueQueue = <<>> => value = sequential

(* Non-empty payloads only: what the hydration effect hands to JSON.parse. *)
ReadFailed ==
    lastRead = "threw" \/ (Truthy(storage) /\ JSONparseThrows(storage))

(* C5 as stated: a read that threw, or any stored payload that cannot be   *)
(* deserialized, is warned about, the value stays initialValue and the     *)
(* store is still marked hydrated.                                         *)
C5_ReadFailureAsStated ==
    (AfterRead /\ (lastRead = "threw"
                     \/ (storage # Null /\ JSONparseThrows(storage))))
        => /\ Warned(ReadWarning)
           /\ ~uncaught
           /\ value = initialValue
           /\ isHydrated \/ (valueQueue = <<>> /\ hydratedQueue = <<TRUE>>)

(* C5, amended: a read that threw, or a stored payload that is not the     *)
(* empty string and cannot be deserialized, is warned about and does not   *)
(* escape the effect, the value stays initialValue and the store is still  *)
(* marked hydrated.                                                        *)
C5_ReadFailure ==
    (AfterRead /\ ReadFailed)
        => /\ Warned(ReadWarning)
           /\ ~uncaught
           /\ value = initialValue
           /\ isHydrated \/ (valueQueue = <<>> /\ hydratedQueue = <<TRUE>>)

(* Hydrated over an unparseable payload, with the warning logged. *)
C5_Witness ==
    /\ AfterRead
    /\ storage = Garbage
    /\ lastRead = "ok"
    /\ isHydrated
    /\ Warned(ReadWarning)

(* C6: with nothing stored under the key when the read happens, the value  *)
(* is initialValue after the read, the update the read queued leaves it    *)
(* initialValue, and it is initialValue once hydration is committed.       *)
C6_AbsentKeepsInitial ==
    (AfterRead /\ lastRead = "ok" /\ storage = Null)
        => /\ value = initialValue
           /\ ~isHydrated => ProcessQueue(value, valueQueue) = initialValue

(* Hydrated over an empty localStorage. *)
C6_Witness ==
    /\ AfterRead
    /\ lastRead = "ok"
    /\ storage = Null
    /\ isHydrated

(* C7: a store starts unhydrated; it becomes hydrated by the one update    *)
(* the read attempt queues, whether the read succeeded or failed; it stays *)
(* hydrated; and getItem is called once per store instance.                *)
C7_HydratedOnce ==
    /\ [](getItemCalls <= 1)
    /\ [](getItemCalls = 0 => (~isHydrated /\ hydratedQueue = <<>>))
    /\ [](getItemCalls = 1 => (isHydrated /\ hydratedQueue = <<>>)
                                \/ (~isHydrated /\ hydratedQueue = <<TRUE>>))
    /\ [][(isHydrated /\ ~NewInstance) => isHydrated']_vars
    /\ [][getItemCalls' # getItemCalls
            => (getItemCalls' = 1 /\ ~NewInstance) \/ (getItemCalls' = 0 /\ NewInstance)]_vars

(* A hydrated store that has since handled an event, rendered and written. *)
C7_Witness ==
    /\ isHydrated
    /\ getItemCalls = 1
    /\ setItemCalls >= 2
    /\ lastOp.op # "load"

(* C8: a setItem that throws is warned about and does not escape the       *)
(* effect, and leaves the value in memory and the stored value as they     *)
(* were; a setItem that succeeds stores the serialization of the value in  *)
(* memory at that time.                                                    *)
C8_WriteFailure ==
    [][setItemCalls' = setItemCalls + 1
        => /\ value' = value
           /\ valueQueue' = valueQueue
           /\ ~uncaught'
           /\ lastWrite' = "threw"
                => /\ storage' = storage
                   /\ warnings' = Append(warnings, WriteWarning)
           /\ lastWrite' = "ok"
                => /\ storage' = JSONstringify(value')
                   /\ warnings' = warnings]_vars

(* A write failed, and a later one succeeded and stored the current value. *)
C8_Witness ==
    /\ Warned(WriteWarning)
    /\ lastWrite = "ok"
    /\ value # <<>>
    /\ storage = JSONstringify(value)
    /\ lastOp.op \in {"addTodo", "toggleTodo", "deleteTodo", "handleDragEnd"}

(* C9: addTodo with a text whose trimmed form is not empty passes to       *)
(* setTodos the rendered list with one record added at the end: one        *)
(* longer, the earlier records as they were, the last one with the trimmed *)
(* text and completed = false.                                             *)
C9_AppendAddsLast ==
    [][(Handled("addTodo") /\ ~IsBlank(lastOp'.text))
        => /\ Len(valueQueue') = Len(valueQueue) + 1
           /\ LET set == valueQueue'[Len(valueQueue')]
                  n == Len(value)
              IN  /\ set.kind = "literal"
                  /\ Len(set.val) = n + 1
                  /\ SubSeq(set.val, 1, n) = value
                  /\ IsTrimmedFormOf(set.val[n + 1].text, lastOp'.text)
                  /\ set.val[n + 1].completed = FALSE]_vars

(* A text with white space at both ends appended to a list of two. *)
C9_Witness ==
    /\ lastOp.op = "addTodo"
    /\ lastOp.text = <<" ", "a", " ">>
    /\ Len(value) = 2
    /\ valueQueue # <<>>
    /\ Len(valueQueue[Len(valueQueue)].val) = 3
    /\ valueQueue[Len(valueQueue)].val[3].text = <<"a">>

(* C10: addTodo with an empty or white-space-only text changes nothing:    *)
(* no update is queued, no record and no id is created, and the list, the  *)
(* stored value and the pending effects are as they were.                  *)
C10_BlankAppendIsNoOp ==
    [][(Handled("addTodo") /\ IsBlank(lastOp'.text))
        => UNCHANGED <<value, valueQueue, inputQueue, storage, nextId, now,
                       pendingEffects, setItemCalls, sequential>>]_vars

(* A white-space-only text submitted on a hydrated list of two. *)
C10_Witness ==
    /\ lastOp.op = "addTodo"
    /\ lastOp.text = <<" ", " ">>
    /\ isHydrated
    /\ Len(value) = 2

----------------------------------------------------------------------------
(* Properties of the list operations. *)

(* The position of the record with the given id, counted from 1. *)
PositionOf(items, id) == CHOOSE i \in 1..Len(items) : items[i].id = id

(* The two records agree on everything but completed. *)
SameButCompleted(s, t) ==
    /\ s.id = t.id
    /\ s.text = t.text
    /\ s.createdAt = t.createdAt

(* C11: toggle(id) gives a list of the same length and order in which the  *)
(* record with that id has completed flipped and every other record is the *)
(* same record at the same position; when no record has that id the list   *)
(* is the one it was.                                                      *)
C11_ToggleFlipsOne ==
    lastOp.op = "toggle" =>
        /\ Len(current) = Len(previous)
        /\ \A i \in 1..Len(previous) :
               IF previous[i].id = lastOp.a
               THEN /\ SameButCompleted(current[i], previous[i])
                    /\ current[i].completed = ~previous[i].completed
               ELSE current[i] = previous[i]
        /\ (lastOp.a \notin IdsOf(previous) => current = previous)

(* The first of two or more records has been toggled. *)
C11_Witness ==
    /\ lastOp.op = "toggle"
    /\ Len(previous) >= 2
    /\ lastOp.a = previous[1].id
    /\ current # previous

(* The list without its k-th record. *)
Without(items, k) == SubSeq(items, 1, k - 1) \o SubSeq(items, k + 1, Len(items))

(* C12: remove(id) gives the old list without the record that has the id,  *)
(* the others in the order they had: one record fewer when the id is in    *)
(* the list, the same list when it is not.                                 *)
C12_RemoveDropsOne ==
    lastOp.op = "remove" =>
        IF lastOp.a \in IdsOf(previous)
        THEN /\ current = Without(previous, PositionOf(previous, lastOp.a))
             /\ Len(current) = Len(previous) - 1
             /\ lastOp.a \notin IdsOf(current)
        ELSE current = previous

(* A record that is neither the first nor the last has been removed. *)
C12_Witness ==
    /\ lastOp.op = "remove"
    /\ Len(previous) >= 3
    /\ lastOp.a = previous[2].id
    /\ Len(current) = Len(previous) - 1

(* C13: a removed id does not come back.  Once every queued update has     *)
(* been applied, no record of the in-memory list has an id deleteTodo was  *)
(* called with since the page loaded.                                      *)
C13_RemovedNeverReturns ==
    valueQueue = <<>> => \A id \in deletedIds : id \notin IdsOf(value)

(* C14: for a source and a target that are both in the list at different   *)
(* positions, move puts the source record at the position the target had,  *)
(* shifts the records between the two positions by one towards the place   *)
(* the source left, and leaves every record outside that range where it    *)
(* was.                                                                    *)
C14_MoveReordersOne ==
    ( /\ lastOp.op = "move"
      /\ lastOp.a \in IdsOf(previous)
      /\ lastOp.b \in IdsOf(previous)
      /\ lastOp.a # lastOp.b )
    => LET from == PositionOf(previous, lastOp.a)
           to   == PositionOf(previous, lastOp.b)
       IN  /\ Len(current) = Len(previous)
           /\ current[to] = previous[from]
           /\ \A i \in 1..Len(previous) :
                  /\ (from <= i /\ i < to) => current[i] = previous[i + 1]
                  /\ (to < i /\ i <= from) => current[i] = previous[i - 1]
                  /\ (i < Min(from, to) \/ i > Max(from, to))
                         => current[i] = previous[i]

(* The first of four records has been moved to the third place: a record   *)
(* lies between the two positions and one lies outside them.               *)
C14_Witness ==
    /\ lastOp.op = "move"
    /\ Len(previous) = 4
    /\ lastOp.a = previous[1].id
    /\ lastOp.b = previous[3].id
    /\ current[3] = previous[1]
    /\ current[4] = previous[4]

(* C15: move leaves the list as it is whenever the source is not in the    *)
(* list, the target is not in the list, or both are at the same position.  *)
C15_MoveIsNoOp ==
    ( /\ lastOp.op = "move"
      /\ \/ lastOp.a \notin IdsOf(previous)
         \/ lastOp.b \notin IdsOf(previous)
         \/ lastOp.a = lastOp.b )
    => current = previous

(* C16: in every reachable state the ids of the records of the in-memory   *)
(* list are pairwise distinct.                                             *)
C16_IdsDistinct ==
    \A i, j \in 1..Len(value) : value[i].id = value[j].id => i = j

(* A record added in this session is on screen with two hydrated ones. *)
C16_Witness ==
    /\ lastOp.op = "addTodo"
    /\ Len(value) = Len(SeedList) + 1
    /\ value[Len(value)].id = Len(SeedList) + 1

(* C17: serializing the in-memory list as the write effect does and        *)
(* deserializing the text as the hydration effect does gives the list back,*)
(* record by record: id, text, completed and createdAt, in value and in    *)
(* representation.                                                         *)
C17_RoundTrip ==
    Loaded(JSONstringify(value)) = value

(* C18: every operation but toggle leaves each record that stays in the    *)
(* list with all its fields, and toggle changes completed only: a record   *)
(* of the list after an operation either was in the list before, with the  *)
(* same id, text and createdAt, or is the record append has just made; and *)
(* move gives the same records in some order.                              *)
C18_FieldsKept ==
    /\ \A i \in 1..Len(current) :
           IF current[i].id \in IdsOf(previous)
           THEN LET was == previous[PositionOf(previous, current[i].id)]
                IN  /\ SameButCompleted(current[i], was)
                    /\ (lastOp.op # "toggle" => current[i] = was)
           ELSE /\ lastOp.op = "append"
                /\ i = Len(current)
                /\ current[i].text = trim(lastOp.text)
    /\ lastOp.op = "move" =>
           /\ Len(current) = Len(previous)
           /\ {current[i] : i \in 1..Len(current)}
                  = {previous[i] : i \in 1..Len(previous)}

(* A list of three or more records, one of them made in this session and   *)
(* one of them completed, has been put in another order.                   *)
C18_Witness ==
    /\ lastOp.op = "move"
    /\ Len(previous) >= 3
    /\ current # previous
    /\ \E i \in 1..Len(current) : current[i].createdAt.type = "Date"
    /\ \E i \in 1..Len(current) : current[i].completed

(* The texts of the records, in order. *)
TextsOf(items) == [i \in 1..Len(items) |-> items[i].text]

(* C19: the scenario, step by step.  On the empty list append("Buy milk")  *)
(* gives [Buy milk]; then append("Walk dog") gives [Buy milk, Walk dog],   *)
(* both not completed, 2 remaining; then toggle of Buy milk's id gives 1   *)
(* remaining and the same order; then move(Walk dog's id, Buy milk's id)   *)
(* gives [Walk dog, Buy milk].                                             *)
C19_Scenario ==
    /\ (lastOp = Op("append", BuyMilk, NoId, NoId) /\ previous = <<>>)
           => /\ TextsOf(current) = <<BuyMilk>>
              /\ remaining(current) = 1
    /\ ( /\ lastOp = Op("append", WalkDog, NoId, NoId)
         /\ TextsOf(previous) = <<BuyMilk>>
         /\ remaining(previous) = 1 )
           => /\ TextsOf(current) = <<BuyMilk, WalkDog>>
              /\ \A i \in 1..Len(current) : ~current[i].completed
              /\ remaining(current) = 2
    /\ ( /\ lastOp.op = "toggle"
         /\ TextsOf(previous) = <<BuyMilk, WalkDog>>
         /\ remaining(previous) = 2
         /\ lastOp.a = previous[1].id )
           => /\ remaining(current) = 1
              /\ TextsOf(current) = <<BuyMilk, WalkDog>>
              /\ current[1].completed /\ ~current[2].completed
    /\ ( /\ lastOp.op = "move"
         /\ TextsOf(previous) = <<BuyMilk, WalkDog>>
         /\ previous[1].completed /\ ~previous[2].completed
         /\ lastOp.a = previous[2].id
         /\ lastOp.b = previous[1].id )
           => /\ TextsOf(current) = <<WalkDog, BuyMilk>>
              /\ current = <<previous[2], previous[1]>>

(* The end of the scenario: four operations on the empty list, the two     *)
(* records made in this session, Buy milk completed, Walk dog moved first. *)
C19_Witness ==
    /\ nOps = 4
    /\ lastOp.op = "move"
    /\ TextsOf(previous) = <<BuyMilk, WalkDog>>
    /\ previous[1].completed
    /\ lastOp.a = previous[2].id
    /\ lastOp.b = previous[1].id
    /\ TextsOf(current) = <<WalkDog, BuyMilk>>
    /\ \A i \in 1..Len(current) : current[i].createdAt.type = "Date"
    /\ remaining(current) = 1

(* The two ids are of records next to each other in the list. *)
Adjacent(items, a, b) ==
    /\ a \in IdsOf(items)
    /\ b \in IdsOf(items)
    /\ LET d == PositionOf(items, a) - PositionOf(items, b)
       IN  d = 1 \/ d = -1

(* move(a, b) and then move(b, a) give the list back. *)
Restores(items, a, b) == moveItems(moveItems(items, a, b), b, a) = items

(* The last step was move(a, b) and this one is move(b, a). *)
MovedBack ==
    /\ lastOp.op = "move"
    /\ lastOp'.op = "move"
    /\ lastOp'.a = lastOp.b
    /\ lastOp'.b = lastOp.a

(* C20: move(a, b) followed at once by move(b, a) gives back the order     *)
(* there was when a and b are next to each other, as they are in every     *)
(* list of two; and move(b, a) does not undo move(a, b) in general: every  *)
(* list of three or more records has ids a and b for which the two moves   *)
(* give another order.                                                     *)
C20_MoveBack ==
    /\ [][(MovedBack /\ Adjacent(previous, lastOp.a, lastOp.b))
              => current' = previous]_vars
    /\ [](Len(current) >= 3
              => \E a, b \in IdsOf(current) : ~Restores(current, a, b))

(* On a list of three or more records a move of a record over its          *)
(* neighbour has just been undone by the opposite move, and the list has   *)
(* two ids whose moves do not undo each other.                             *)
C20_Witness ==
    /\ lastOp.op = "move"
    /\ Len(previous) >= 3
    /\ Adjacent(previous, lastOp.a, lastOp.b)
    /\ current # previous
    /\ moveItems(current, lastOp.b, lastOp.a) = previous
    /\ nOps >= 2
    /\ \E a, b \in IdsOf(current) : ~Restores(current, a, b)

(* What hydration leaves in memory, told from what localStorage holds      *)
(* before the first write: the stored list, or initialValue when nothing   *)
(* usable was read.                                                        *)
Hydrated == IF ReadFailed THEN initialValue ELSE Loaded(storage)

(* A step in which the hook instance calls setItem for the first time. *)
FirstWrite == setItemCalls = 0 /\ setItemCalls' = 1

(* C21: the store writes once it is hydrated, whether or not setTodos was  *)
(* ever called.  While it is hydrated and has not written, the value is    *)
(* the one hydration left and the write effect is pending, to run before   *)
(* the next render; and the first setItem of a store is that effect's,     *)
(* which on success stores the serialization of that value: the loaded     *)
(* list after a read that gave one, the serialized initialValue after an   *)
(* absent or failed read, whatever was stored before.                      *)
C21_WriteFollowsHydration ==
    /\ []((isHydrated /\ setItemCalls = 0)
              => ("write" \in pendingEffects /\ value = Hydrated))
    /\ [][FirstWrite
              => /\ isHydrated
                 /\ "write" \in pendingEffects
                 /\ lastWrite' = "ok" => storage' = JSONstringify(Hydrated)]_vars

(* No handler has run, and the store's one write has replaced a payload    *)
(* that could not be parsed by the serialized initialValue.                *)
C21_Witness ==
    /\ nOps = 0
    /\ lastRead = "ok"
    /\ Warned(ReadWarning)
    /\ isHydrated
    /\ setItemCalls = 1
    /\ lastWrite = "ok"
    /\ storage = JSONstringify(initialValue)

====
